---- MODULE Spec2Model ----
(***************************************************************************)
(* Model of scripts/generate-seed-db.py: the seed-database generator.      *)
(* The store is a function from table names to sets of row-tuples; the     *)
(* connection's view (conn) holds uncommitted rows, durable is what a      *)
(* commit has written to the output file.                                  *)
(***************************************************************************)
EXTENDS Integers, Sequences, FiniteSets, TLC

(* ------------------------------ bounds -------------------------------- *)
\* longest verses payload the API returns in the model
MaxRows == 3
\* largest scaled-down chunk size tried besides BATCH_SIZE
MaxChunk == 2
\* load calls made on one store by the loader harness
MaxCalls == 2
\* metadata writes made on one store by the metadata harness
MaxWrites == 2

BATCH_SIZE == 1000

(* --------------------------- JSON / SQL values ------------------------ *)
\* JSON null, Python None, SQL NULL
Null == "null"
\* a key that is absent from a JSON object
Missing == "missing"

\* obj[k]: raises KeyError when the key is absent
HasKeys(obj, keys) == \A k \in keys : obj[k] # Missing
\* obj.get(k, default)
Get(obj, k, default) == IF obj[k] = Missing THEN default ELSE obj[k]

SeqsUpTo(S, n) == UNION {[1..k -> S] : k \in 0..n}

(* ------------------------------ schema -------------------------------- *)
ContentTables ==
  {"offline_verses", "offline_explanations", "offline_topics",
   "offline_topic_references", "offline_topic_explanations"}
UserTables == {"offline_notes", "offline_highlights", "offline_bookmarks"}
Tables == ContentTables \cup UserTables \cup {"offline_metadata"}

\* positions, in the inserted tuple, of the columns declared NOT NULL
NotNullCols(t) ==
  CASE t = "offline_verses" -> {1, 2, 3, 4, 5}
    [] t = "offline_explanations" -> {1, 2, 3, 4, 7, 8}
    [] t = "offline_topics" -> {1, 2, 3, 4, 5}
    [] t = "offline_topic_references" -> {1, 2}
    [] t = "offline_topic_explanations" -> {1, 2, 3, 4}
    [] t = "offline_metadata" -> {1, 2, 3, 4}
    [] OTHER -> {}

\* positions of the columns of the UNIQUE / PRIMARY KEY constraint
UniqueCols(t) ==
  CASE t = "offline_verses" -> {1, 2, 3, 4}
    [] t = "offline_explanations" -> {1, 2}
    [] t = "offline_topics" -> {1, 2}
    [] t = "offline_topic_references" -> {1}
    [] t = "offline_topic_explanations" -> {1, 2, 3}
    [] t = "offline_metadata" -> {1}
    [] OTHER -> {}

\* a file with no tables in it
NoTables == [t \in {} |-> {}]
RowsOf(db, t) == IF t \in DOMAIN db THEN db[t] ELSE {}

\* CREATE TABLE IF NOT EXISTS for every table: existing rows are kept
create_schema(db) == [t \in Tables |-> RowsOf(db, t)]

SameKey(t, r1, r2) == \A c \in UniqueCols(t) : r1[c] = r2[c]
ViolatesNotNull(t, row) == \E c \in NotNullCols(t) : row[c] = Null
ViolatesUnique(db, t, row) == \E r \in db[t] : SameKey(t, r, row)

\* faulty variant: a row whose key is stored overwrites the stored row
InsertOrIgnore_overwrite(db, t, row) ==
  IF ViolatesNotNull(t, row)
  THEN db
  ELSE [db EXCEPT ![t] = {r \in @ : ~SameKey(t, r, row)} \cup {row}]

\* INSERT OR IGNORE: the row is skipped on any constraint violation
InsertOrIgnore(db, t, row) ==
  IF ViolatesNotNull(t, row) \/ ViolatesUnique(db, t, row)
  THEN db
  ELSE [db EXCEPT ![t] = @ \cup {row}]

\* faulty variant: the row is added and the stored row of its key is kept
InsertOrReplace_keep(db, t, row) == [db EXCEPT ![t] = @ \cup {row}]

\* INSERT OR REPLACE: a NOT NULL violation on a column without default aborts
ReplaceAborts(t, row) == ViolatesNotNull(t, row)
InsertOrReplace(db, t, row) ==
  [db EXCEPT ![t] = {r \in @ : ~SameKey(t, r, row)} \cup {row}]

(* ------------------------- API payloads (inputs) ---------------------- *)
Verse(vn, tx) ==
  [book_id |-> "1", chapter_number |-> "1", verse_number |-> vn, text |-> tx]
\* verse objects the API may return: two verses and one that lacks "text"
VerseObjs == {Verse("1", "a"), Verse("2", "b"), Verse("3", Missing)}
VersePayloads == SeqsUpTo(VerseObjs, MaxRows)

Entry(id, tp) ==
  [explanation_id |-> id, book_id |-> "1", chapter_number |-> "1",
   verse_start |-> Missing, verse_end |-> "2", type |-> tp, explanation |-> "e"]
\* a commentary list, one with a second entry that lacks "type"
CommentaryPayloads ==
  { <<>>, <<Entry("7", "summary")>>, <<Entry("7", "summary"), Entry("8", Missing)>> }

Topic(id, name, cat) ==
  [language_code |-> "en", topic_id |-> id, name |-> name, content |-> "c",
   category |-> cat, sort_order |-> Missing]
Reference(id, rc) == [topic_id |-> id, reference_content |-> rc]
Explanation(id, tp, ex) ==
  [language_code |-> "en", topic_id |-> id, type |-> tp, explanation |-> ex]
Bundle(ks, ts, rs, es) ==
  [keys |-> ks, topics |-> ts, references |-> rs, explanations |-> es]
BundleKeys == {"topics", "references", "explanations"}
\* the topics bundles the API may return: topics whose "category" is present,
\* absent and null; empty lists; an object lacking a key in each list; a bundle
\* lacking a list
TopicsPayloads ==
  { Bundle(BundleKeys,
           <<Topic("t1", "n", "k"), Topic("t2", "n", Missing), Topic("t3", "n", Null)>>,
           <<Reference("t1", "r")>>,
           <<Explanation("t1", "summary", "x"), Explanation("t1", "detail", "x")>>),
    Bundle(BundleKeys, <<Topic("t1", "n", "k")>>, <<>>, <<>>),
    Bundle(BundleKeys, <<Topic("t1", "n", "k"), Topic("t2", Missing, "k")>>,
           <<Reference("t1", "r")>>, <<Explanation("t1", "summary", "x")>>),
    Bundle(BundleKeys, <<Topic("t1", "n", "k")>>,
           <<Reference("t1", "r"), Reference("t2", Missing)>>,
           <<Explanation("t1", "summary", "x")>>),
    Bundle(BundleKeys, <<Topic("t1", "n", "k")>>, <<Reference("t1", "r")>>,
           <<Explanation("t1", Missing, "x"), Explanation("t1", "summary", "x")>>),
    Bundle({"topics", "explanations"}, <<Topic("t1", "n", "k")>>, <<>>, <<>>) }

Version(k, u) == [key |-> k, updated_at |-> u]
Language(c, u) == [code |-> c, updated_at |-> u]
Manifest(bs, cs, ts) ==
  [bible_versions |-> bs, commentary_languages |-> cs, topic_languages |-> ts]
\* the manifests the API may return
ManifestPayloads ==
  { Manifest(<<Version("KJV", "u0"), Version("NASB1995", "u1"), Version("NASB1995", "u2")>>,
             <<Language("en-US", "u1")>>, <<Language("es", "u0"), Language("en", "u1")>>),
    Manifest(<<Version("KJV", "u0")>>,
             <<Language("en-US", "u1")>>, <<Language("en", "u1")>>),
    Manifest(<<Version("NASB1995", "u1")>>,
             <<Language("en-US", Null)>>, <<Language("en", "u1")>>),
    Manifest(<<Version("NASB1995", "u1")>>,
             <<Language("en-US", "u1")>>, <<Language("en", Missing)>>) }

\* values of datetime.now(timezone.utc).isoformat()
Times == {"t1", "t2"}

\* the seed database a previous run left at OUTPUT_PATH
OldSeed ==
  [create_schema(NoTables) EXCEPT
     !["offline_verses"] = {<<"NASB1995", "1", "1", "1", "old">>},
     !["offline_metadata"] = {<<"bible:NASB1995", "u0", "t0", "1">>,
                              <<"commentary:en-US", "u0", "t0", "0">>,
                              <<"topics:en", "u0", "t0", "1">>}]

(* ---------------------------- record mappers -------------------------- *)
verse_keys == {"book_id", "chapter_number", "verse_number", "text"}
verse_row(version_key, v) ==
  <<version_key, v.book_id, v.chapter_number, v.verse_number, v.text>>
verse_rows(version_key, vs) == [n \in 1..Len(vs) |-> verse_row(version_key, vs[n])]

commentary_keys ==
  {"explanation_id", "book_id", "chapter_number", "type", "explanation"}
commentary_row(language_code, e) ==
  <<language_code, e.explanation_id, e.book_id, e.chapter_number,
    Get(e, "verse_start", Null), Get(e, "verse_end", Null), e.type, e.explanation>>
commentary_rows(language_code, es) ==
  [n \in 1..Len(es) |-> commentary_row(language_code, es[n])]

topic_keys == {"language_code", "topic_id", "name", "content"}
topic_row(t) ==
  <<t.language_code, t.topic_id, t.name, t.content,
    Get(t, "category", ""), Get(t, "sort_order", Null)>>
topic_rows(ts) == [n \in 1..Len(ts) |-> topic_row(ts[n])]

ref_keys == {"topic_id", "reference_content"}
ref_row(r) == <<r.topic_id, r.reference_content>>
ref_rows(rs) == [n \in 1..Len(rs) |-> ref_row(rs[n])]

exp_keys == {"language_code", "topic_id", "type", "explanation"}
exp_row(e) == <<e.language_code, e.topic_id, e.type, e.explanation>>
exp_rows(es) == [n \in 1..Len(es) |-> exp_row(es[n])]

\* the list comprehension raises KeyError at the first object lacking a key
AllHaveKeys(objs, keys) == \A n \in 1..Len(objs) : HasKeys(objs[n], keys)

\* len(json.dumps(payload).encode()), abstracted to the number of objects
json_size(payload) == Len(payload)
bundle_size(b) == Len(b.topics) + Len(b.references) + Len(b.explanations)

\* next(x for x in list if x[field] == value): index of the first match, 0 = StopIteration
FirstMatch(list, field, value) ==
  LET S == {n \in 1..Len(list) : list[n][field] = value}
  IN IF S = {} THEN 0 ELSE CHOOSE n \in S : \A m \in S : n <= m

\* the parameter list of the metadata executemany
metadata_rows(inf, now, vs, cs, td) ==
  << <<"bible:NASB1995", inf.nasb.updated_at, now, ToString(json_size(vs))>>,
     <<"commentary:en-US", inf.comm.updated_at, now, ToString(json_size(cs))>>,
     <<"topics:en", inf.topics.updated_at, now, ToString(bundle_size(td))>> >>

(* ------------------------------- state -------------------------------- *)
VARIABLES
  pc,            \* the statement of main() about to run
  status,        \* "running", or the process's exit: "exit0", "exit1"
  exists,        \* os.path.exists(output_path)
  durable,       \* committed contents of the output file
  conn,          \* contents as the open connection sees them (with uncommitted rows)
  now_iso, manifest, info, verses, commentaries, topics_data,
  batch_size,    \* the chunk size of insert_in_batches
  sql,           \* table of the statement handed to executemany
  rows,          \* its parameter list
  i,             \* insert_in_batches: start of the current batch
  j,             \* rows of the current executemany already executed
  loading,       \* inside an executemany/commit loop
  calls          \* harness: load calls or metadata writes made so far

vars == <<pc, status, exists, durable, conn, now_iso, manifest, info, verses,
          commentaries, topics_data, batch_size, sql, rows, i, j, loading, calls>>
fetched == <<now_iso, manifest, info, verses, commentaries, topics_data>>
loader == <<sql, rows, i, j, loading>>

NoManifest == Manifest(<<>>, <<>>, <<>>)
NoInfo ==
  [nasb |-> Version(Missing, Missing), comm |-> Language(Missing, Missing),
   topics |-> Language(Missing, Missing)]
NoBundle == Bundle(BundleKeys, <<>>, <<>>, <<>>)

\* the chunk sizes tried: scaled-down ones and the program's own
ChunkSizes == (1..MaxChunk) \cup {BATCH_SIZE}

Init ==
  /\ pc = "remove" /\ status = "running"
  /\ exists \in BOOLEAN
  /\ durable = (IF exists THEN OldSeed ELSE NoTables)
  /\ conn = NoTables
  /\ now_iso = "" /\ manifest = NoManifest /\ info = NoInfo
  /\ verses = <<>> /\ commentaries = <<>> /\ topics_data = NoBundle
  /\ batch_size \in ChunkSizes
  /\ sql = "" /\ rows = <<>> /\ i = 0 /\ j = 0 /\ loading = FALSE
  /\ calls = 0

Running(step) == status = "running" /\ pc = step /\ ~loading

\* an uncaught exception: the process exits 1 and uncommitted rows are lost
Raise ==
  /\ status' = "exit1"
  /\ conn' = IF conn = NoTables THEN conn ELSE durable
  /\ UNCHANGED <<pc, exists, durable, fetched, batch_size, loader, calls>>

(* ------------------------------- main() ------------------------------- *)
\* faulty variant: the existing file is left in place
RemoveExisting_keep ==
  /\ Running("remove")
  /\ \E t \in Times : now_iso' = t
  /\ pc' = "fetch_manifest"
  /\ UNCHANGED <<status, exists, durable, conn, manifest, info, verses, commentaries,
                 topics_data, batch_size, loader, calls>>

\* os.remove(output_path) if it exists; now_iso = datetime.now()
RemoveExisting ==
  /\ Running("remove")
  /\ exists' = FALSE /\ durable' = NoTables
  /\ \E t \in Times : now_iso' = t
  /\ pc' = "fetch_manifest"
  /\ UNCHANGED <<status, conn, manifest, info, verses, commentaries, topics_data,
                 batch_size, loader, calls>>

FetchManifest ==
  /\ Running("fetch_manifest")
  /\ \E m \in ManifestPayloads : manifest' = m
  /\ pc' = "lookup"
  /\ UNCHANGED <<status, exists, durable, conn, now_iso, info, verses, commentaries,
                 topics_data, batch_size, loader, calls>>

\* faulty variant: a missing manifest entry is tolerated
Lookup_tolerant ==
  /\ Running("lookup")
  /\ LET b == FirstMatch(manifest.bible_versions, "key", "NASB1995")
         c == FirstMatch(manifest.commentary_languages, "code", "en-US")
         t == FirstMatch(manifest.topic_languages, "code", "en")
     IN /\ info' = [nasb |-> IF b = 0 THEN info.nasb ELSE manifest.bible_versions[b],
                    comm |-> IF c = 0 THEN info.comm
                             ELSE manifest.commentary_languages[c],
                    topics |-> IF t = 0 THEN info.topics
                               ELSE manifest.topic_languages[t]]
        /\ pc' = "fetch_verses"
        /\ UNCHANGED <<status, exists, durable, conn, now_iso, manifest, verses,
                       commentaries, topics_data, batch_size, loader, calls>>

\* the three next(...) scans of the manifest
Lookup ==
  /\ Running("lookup")
  /\ LET b == FirstMatch(manifest.bible_versions, "key", "NASB1995")
         c == FirstMatch(manifest.commentary_languages, "code", "en-US")
         t == FirstMatch(manifest.topic_languages, "code", "en")
     IN IF b = 0 \/ c = 0 \/ t = 0
        THEN Raise
        ELSE /\ info' = [nasb |-> manifest.bible_versions[b],
                         comm |-> manifest.commentary_languages[c],
                         topics |-> manifest.topic_languages[t]]
             /\ pc' = "fetch_verses"
             /\ UNCHANGED <<status, exists, durable, conn, now_iso, manifest, verses,
                            commentaries, topics_data, batch_size, loader, calls>>

FetchVerses ==
  /\ Running("fetch_verses")
  /\ \E p \in VersePayloads : verses' = p
  /\ pc' = "fetch_commentaries"
  /\ UNCHANGED <<status, exists, durable, conn, now_iso, manifest, info, commentaries,
                 topics_data, batch_size, loader, calls>>

FetchCommentaries ==
  /\ Running("fetch_commentaries")
  /\ \E p \in CommentaryPayloads : commentaries' = p
  /\ pc' = "fetch_topics"
  /\ UNCHANGED <<status, exists, durable, conn, now_iso, manifest, info, verses,
                 topics_data, batch_size, loader, calls>>

\* the fetch and the print of the three list lengths
FetchTopics ==
  /\ Running("fetch_topics")
  /\ \E p \in TopicsPayloads :
       /\ topics_data' = p
       /\ IF p.keys # BundleKeys
          THEN /\ status' = "exit1"
               /\ UNCHANGED pc
          ELSE /\ pc' = "open"
               /\ UNCHANGED status
  /\ UNCHANGED <<exists, durable, conn, now_iso, manifest, info, verses, commentaries,
                 batch_size, loader, calls>>

\* sqlite3.connect and the two PRAGMAs: the file is opened, or created empty
Connect ==
  /\ Running("open")
  /\ exists' = TRUE
  /\ conn' = durable
  /\ pc' = "schema"
  /\ UNCHANGED <<status, durable, fetched, batch_size, loader, calls>>

CreateSchema ==
  /\ Running("schema")
  /\ conn' = create_schema(conn)
  /\ durable' = create_schema(conn)
  /\ pc' = "load_verses"
  /\ UNCHANGED <<status, exists, fetched, batch_size, loader, calls>>

(* ------------------------- the batch loader --------------------------- *)
Min(a, b) == IF a <= b THEN a ELSE b
\* batch = rows[i : i + BATCH_SIZE]
BatchLen == Min(batch_size, Len(rows) - i)

\* the statement that follows a load call
AfterLoad(step) ==
  CASE step = "load_verses" -> "load_commentaries"
    [] step = "load_commentaries" -> "load_topics"
    [] step = "load_topics" -> "load_references"
    [] step = "load_references" -> "load_explanations"
    [] step = "load_explanations" -> "metadata"
    [] OTHER -> step

\* entry of insert_in_batches(conn, sql, rows, label): an empty list returns at once
insert_in_batches(t, rws) ==
  /\ i' = 0 /\ j' = 0
  /\ IF Len(rws) = 0
     THEN sql' = "" /\ rows' = <<>> /\ loading' = FALSE /\ pc' = AfterLoad(pc)
     ELSE sql' = t /\ rows' = rws /\ loading' = TRUE /\ pc' = pc
  /\ UNCHANGED <<status, exists, durable, conn, fetched, batch_size>>

\* faulty variant: every row is committed as it is executed
ExecRow_autocommit ==
  /\ status = "running" /\ loading /\ sql \in ContentTables
  /\ j < BatchLen
  /\ conn' = InsertOrIgnore(conn, sql, rows[i + j + 1])
  /\ durable' = conn'
  /\ j' = j + 1
  /\ UNCHANGED <<pc, status, exists, fetched, batch_size, sql, rows, i, loading, calls>>

\* one row of conn.executemany(sql, batch)
ExecRow ==
  /\ status = "running" /\ loading /\ sql \in ContentTables
  /\ j < BatchLen
  /\ conn' = InsertOrIgnore(conn, sql, rows[i + j + 1])
  /\ j' = j + 1
  /\ UNCHANGED <<pc, status, exists, durable, fetched, batch_size, sql, rows, i,
                 loading, calls>>

\* conn.commit() and the loop's next iteration or exit
CommitBatch ==
  /\ status = "running" /\ loading /\ sql \in ContentTables
  /\ j = BatchLen
  /\ durable' = conn
  /\ j' = 0
  /\ IF i + batch_size >= Len(rows)
     THEN /\ sql' = "" /\ rows' = <<>> /\ i' = 0
          /\ loading' = FALSE /\ pc' = AfterLoad(pc)
     ELSE /\ i' = i + batch_size
          /\ UNCHANGED <<sql, rows, loading, pc>>
  /\ UNCHANGED <<status, exists, conn, fetched, batch_size, calls>>

insert_verses ==
  /\ Running("load_verses")
  /\ IF AllHaveKeys(verses, verse_keys)
     THEN insert_in_batches("offline_verses", verse_rows("NASB1995", verses))
          /\ UNCHANGED calls
     ELSE Raise

insert_commentaries ==
  /\ Running("load_commentaries")
  /\ IF AllHaveKeys(commentaries, commentary_keys)
     THEN insert_in_batches("offline_explanations",
                            commentary_rows("en-US", commentaries))
          /\ UNCHANGED calls
     ELSE Raise

\* insert_topics, first part: the topics themselves
insert_topics ==
  /\ Running("load_topics")
  /\ IF AllHaveKeys(topics_data.topics, topic_keys)
     THEN insert_in_batches("offline_topics", topic_rows(topics_data.topics))
          /\ UNCHANGED calls
     ELSE Raise

\* faulty variant: references that lack a key are skipped and the others loaded
RefHasKeys(r) == HasKeys(r, ref_keys)
insert_topic_references_skip_bad ==
  /\ Running("load_references")
  /\ insert_in_batches("offline_topic_references",
                       ref_rows(SelectSeq(topics_data.references, RefHasKeys)))
  /\ UNCHANGED calls

\* insert_topics, second part: the references (skipped when there are none)
insert_topic_references ==
  /\ Running("load_references")
  /\ IF AllHaveKeys(topics_data.references, ref_keys)
     THEN insert_in_batches("offline_topic_references",
                            ref_rows(topics_data.references))
          /\ UNCHANGED calls
     ELSE Raise

\* insert_topics, third part: the explanations (skipped when there are none)
insert_topic_explanations ==
  /\ Running("load_explanations")
  /\ IF AllHaveKeys(topics_data.explanations, exp_keys)
     THEN insert_in_batches("offline_topic_explanations",
                            exp_rows(topics_data.explanations))
          /\ UNCHANGED calls
     ELSE Raise

(* --------------------------- metadata and end ------------------------- *)
\* faulty variant: the metadata statement names another table
MetadataTable_notes == "offline_notes"

\* the table of the INSERT OR REPLACE statement
MetadataTable == "offline_metadata"

\* the sizes and the parameter list of the metadata executemany
BuildMetadata ==
  /\ Running("metadata")
  /\ IF \A e \in {info.nasb, info.comm, info.topics} : e.updated_at # Missing
     THEN /\ rows' = metadata_rows(info, now_iso, verses, commentaries, topics_data)
          /\ sql' = MetadataTable /\ i' = 0 /\ j' = 0 /\ loading' = TRUE
          /\ UNCHANGED <<pc, status, exists, durable, conn, fetched, batch_size, calls>>
     ELSE Raise

\* faulty variant: every metadata row is committed as it is executed
ExecMetaRow_autocommit ==
  /\ status = "running" /\ loading /\ sql \notin ContentTables
  /\ j < Len(rows)
  /\ IF ReplaceAborts(sql, rows[j + 1])
     THEN Raise
     ELSE /\ conn' = InsertOrReplace(conn, sql, rows[j + 1])
          /\ durable' = conn'
          /\ j' = j + 1
          /\ UNCHANGED <<pc, status, exists, fetched, batch_size, sql, rows, i,
                         loading, calls>>

\* one row of the INSERT OR REPLACE executemany
ExecMetaRow ==
  /\ status = "running" /\ loading /\ sql \notin ContentTables
  /\ j < Len(rows)
  /\ IF ReplaceAborts(sql, rows[j + 1])
     THEN Raise
     ELSE /\ conn' = InsertOrReplace(conn, sql, rows[j + 1])
          /\ j' = j + 1
          /\ UNCHANGED <<pc, status, exists, durable, fetched, batch_size, sql, rows,
                         i, loading, calls>>

CommitMeta ==
  /\ status = "running" /\ loading /\ sql \notin ContentTables
  /\ j = Len(rows)
  /\ durable' = conn
  /\ sql' = "" /\ rows' = <<>> /\ j' = 0
  /\ loading' = FALSE
  /\ pc' = "vacuum"
  /\ UNCHANGED <<status, exists, conn, fetched, batch_size, i, calls>>

\* VACUUM and close: the rows are kept
Vacuum ==
  /\ Running("vacuum")
  /\ pc' = "report"
  /\ UNCHANGED <<status, exists, durable, conn, fetched, batch_size, loader, calls>>

\* the final prints; main returns and the process exits 0
Report ==
  /\ Running("report")
  /\ exists
  /\ pc' = "done" /\ status' = "exit0"
  /\ UNCHANGED <<exists, durable, conn, fetched, batch_size, loader, calls>>

\* a network or storage error, an operator interrupt or a crash, at any statement
Abort ==
  /\ status = "running" /\ pc # "done"
  /\ Raise

Next ==
  \/ RemoveExisting \/ FetchManifest \/ Lookup
  \/ FetchVerses \/ FetchCommentaries \/ FetchTopics
  \/ Connect \/ CreateSchema
  \/ insert_verses \/ insert_commentaries
  \/ insert_topics \/ insert_topic_references \/ insert_topic_explanations
  \/ ExecRow \/ CommitBatch
  \/ BuildMetadata \/ ExecMetaRow \/ CommitMeta
  \/ Vacuum \/ Report \/ Abort

Spec == Init /\ [][Next]_vars

(* ------------------ harness: load calls on one store ------------------ *)
\* verse rows with equal and with distinct unique keys
LoadVerseObjs == {Verse("1", "a"), Verse("1", "b"), Verse("2", "a")}
\* topics with equal keys, and with "category" absent or null
LoadTopicObjs ==
  {Topic("t1", "n", "k"), Topic("t1", "m", "k"), Topic("t2", "n", Null),
   Topic("t2", "n", Missing)}

InitLoad ==
  /\ pc = "loader" /\ status = "running"
  /\ exists = TRUE
  /\ durable = create_schema(NoTables)
  /\ conn = create_schema(NoTables)
  /\ now_iso = "" /\ manifest = NoManifest /\ info = NoInfo
  /\ verses = <<>> /\ commentaries = <<>> /\ topics_data = NoBundle
  /\ batch_size \in ChunkSizes
  /\ sql = "" /\ rows = <<>> /\ i = 0 /\ j = 0 /\ loading = FALSE
  /\ calls = 0

\* insert_verses called on a verse list
LoadVerses ==
  /\ Running("loader") /\ calls < MaxCalls
  /\ \E p \in SeqsUpTo(LoadVerseObjs, MaxRows) :
       insert_in_batches("offline_verses", verse_rows("NASB1995", p))
  /\ calls' = calls + 1

\* insert_topics called on a topic list
LoadTopics ==
  /\ Running("loader") /\ calls < MaxCalls
  /\ \E p \in SeqsUpTo(LoadTopicObjs, MaxRows) :
       insert_in_batches("offline_topics", topic_rows(p))
  /\ calls' = calls + 1

NextLoad == LoadVerses \/ LoadTopics \/ ExecRow \/ CommitBatch

SpecLoad == InitLoad /\ [][NextLoad]_vars

(* ---------------- harness: metadata written more than once ------------ *)
\* the metadata statement run again on the same store with new values
RewriteMetadata ==
  /\ Running("vacuum") /\ calls < MaxWrites
  /\ \E u \in {"u1", "u3"}, t \in Times, vs \in {<<>>, verses} :
       /\ info' = [info EXCEPT !.nasb.updated_at = u, !.topics.updated_at = u]
       /\ now_iso' = t
       /\ verses' = vs
  /\ pc' = "metadata"
  /\ calls' = calls + 1
  /\ UNCHANGED <<status, exists, durable, conn, manifest, commentaries, topics_data,
                 batch_size, loader>>

NextMeta == Next \/ RewriteMetadata

SpecMeta == Init /\ [][NextMeta]_vars

(* ------------------------ definitions for the claims ------------------ *)
\* the table t of an empty store after every row of rws was inserted in order
RECURSIVE InsertAll(_, _, _)
InsertAll(db, t, rws) ==
  IF rws = <<>> THEN db
  ELSE InsertAll(InsertOrIgnore(db, t, Head(rws)), t, Tail(rws))
Loaded(t, rws) == InsertAll(create_schema(NoTables), t, rws)[t]

\* the first row of every distinct unique key of rws
Dedup(t, rws) ==
  {rws[n] : n \in {k \in 1..Len(rws) : \A m \in 1..(k - 1) : ~SameKey(t, rws[m], rws[k])}}

KeyStored(db, t, row) == \E r \in RowsOf(db, t) : SameKey(t, r, row)
Empty(t) == RowsOf(durable, t) = {} /\ RowsOf(conn, t) = {}

\* the steps of the orchestrator in the order the specification gives them
StepOrder ==
  <<"remove", "fetch_manifest", "lookup", "fetch_verses", "fetch_commentaries",
    "fetch_topics", "open", "load_verses", "load_commentaries", "load_topics",
    "metadata", "vacuum", "report", "done">>
StepName(p) ==
  CASE p = "schema" -> "open"
    [] p \in {"load_references", "load_explanations"} -> "load_topics"
    [] OTHER -> p
StepIdx(p) == CHOOSE n \in 1..Len(StepOrder) : StepOrder[n] = StepName(p)

\* position of a statement among the five content loads (0 before, 6 after)
StagePos(p) ==
  CASE p \in {"remove", "fetch_manifest", "lookup", "fetch_verses",
              "fetch_commentaries", "fetch_topics", "open", "schema"} -> 0
    [] p = "load_verses" -> 1
    [] p = "load_commentaries" -> 2
    [] p = "load_topics" -> 3
    [] p = "load_references" -> 4
    [] p = "load_explanations" -> 5
    [] OTHER -> 6
StageTable(k) ==
  <<"offline_verses", "offline_explanations", "offline_topics",
    "offline_topic_references", "offline_topic_explanations">>[k]
WellFormed(k) ==
  CASE k = 1 -> AllHaveKeys(verses, verse_keys)
    [] k = 2 -> AllHaveKeys(commentaries, commentary_keys)
    [] k = 3 -> AllHaveKeys(topics_data.topics, topic_keys)
    [] k = 4 -> AllHaveKeys(topics_data.references, ref_keys)
    [] k = 5 -> AllHaveKeys(topics_data.explanations, exp_keys)
StageRows(k) ==
  CASE k = 1 -> verse_rows("NASB1995", verses)
    [] k = 2 -> commentary_rows("en-US", commentaries)
    [] k = 3 -> topic_rows(topics_data.topics)
    [] k = 4 -> ref_rows(topics_data.references)
    [] k = 5 -> exp_rows(topics_data.explanations)
\* every chunk of content load k is committed
Committed(k) == RowsOf(durable, StageTable(k)) = Loaded(StageTable(k), StageRows(k))

(* ------------------------------- claims ------------------------------- *)

\* C1, as stated: when insert_in_batches returns from loading a row sequence into
\* an empty table, the committed rows are the deduplicated input (the first row of
\* every distinct unique key), whatever the chunk size.
C1_BatchingCorrectness ==
  [][(loading /\ ~loading' /\ calls = 1)
       => RowsOf(durable', sql) = Dedup(sql, rows)]_vars

\* C2: at any point of insert_in_batches, also after a crash, the durable table
\* holds exactly the rows of the chunks already committed and no row of the
\* chunk in progress.
C2_ChunkAtomicity ==
  (loading /\ sql \in ContentTables) =>
     /\ i <= Len(rows)
     /\ durable[sql] = Loaded(sql, SubSeq(rows, 1, i))
     /\ \A n \in (i + 1)..Len(rows) :
          rows[n] \in durable[sql] => \E m \in 1..i : rows[m] = rows[n]
\* a crash part-way through the second chunk, whose first row is not durable
C2_Witness ==
  /\ status = "exit1" /\ loading /\ sql \in ContentTables
  /\ i > 0 /\ i + 1 < Len(rows)
  /\ durable[sql] # {}
  /\ rows[i + 1] \notin durable[sql]


C4_MetadataOverwrite ==
  /\ [][(loading /\ sql = MetadataTable /\ j' = j + 1) =>
          LET r == rows[j + 1]
          IN /\ {x \in conn'[sql] : x[1] = r[1]} = {r}
             /\ {x \in conn'[sql] : x[1] # r[1]} = {x \in conn[sql] : x[1] # r[1]}]_vars
  /\ [](pc \in {"vacuum", "report", "done"} =>
          /\ durable[MetadataTable] =
               {metadata_rows(info, now_iso, verses, commentaries, topics_data)[n] :
                  n \in 1..3}
          /\ \A k \in {"bible:NASB1995", "commentary:en-US", "topics:en"} :
               Cardinality({x \in durable[MetadataTable] : x[1] = k}) = 1)
\* the second write of a key has replaced the first write's values
C4_Witness ==
  /\ calls = 1 /\ loading /\ sql = MetadataTable /\ j = 1
  /\ rows[1] \in conn[sql]
  /\ \E x \in durable[sql] : x[1] = rows[1][1] /\ x # rows[1]
  /\ Cardinality(conn[sql]) = 3

\* C5: the step changes only to the next step of the fixed order and only while
\* the run has not failed; a failed run stays at its step, changes nothing more
\* and has exit code 1; the run exits 0 only from the last step.
C5_StepOrder ==
  /\ [][/\ pc' # pc => (status = "running" /\ StepIdx(pc') \in {StepIdx(pc), StepIdx(pc) + 1})
        /\ status # "running" => UNCHANGED <<pc, status, exists, durable, conn>>
        /\ (status' = "exit1" /\ status = "running") => pc' = pc
        /\ (status' = "exit0" /\ status = "running") => (pc = "report" /\ pc' = "done")]_vars
  /\ [](StepIdx(pc) > StepIdx("lookup") =>
          /\ FirstMatch(manifest.bible_versions, "key", "NASB1995") > 0
          /\ FirstMatch(manifest.commentary_languages, "code", "en-US") > 0
          /\ FirstMatch(manifest.topic_languages, "code", "en") > 0)
  /\ [](StepIdx(pc) > StepIdx("open") => exists /\ DOMAIN durable = Tables)
  /\ [](StepIdx(pc) >= StepIdx("metadata") => \A k \in 1..5 : WellFormed(k) /\ Committed(k))
  /\ [](pc = "done" <=> status = "exit0")
\* the manifest lacks an entry: the run has failed at the lookup
C5_Witness ==
  /\ status = "exit1" /\ pc = "lookup"
  /\ FirstMatch(manifest.bible_versions, "key", "NASB1995") = 0

\* C6, as stated: the run leaves the notes, highlights, bookmarks and metadata
\* tables with zero rows in every state.
C6_NeverPopulated ==
  pc # "remove" => \A t \in UserTables \cup {"offline_metadata"} : Empty(t)
\* C6, amended: notes, highlights and bookmarks have zero rows in every state of
\* the run; metadata has zero rows until the metadata step and three committed
\* rows after it.
C6_UserTablesEmpty ==
  pc # "remove" =>
     /\ \A t \in UserTables : Empty(t)
     /\ StepIdx(pc) < StepIdx("metadata") => Empty("offline_metadata")
     /\ StepIdx(pc) > StepIdx("metadata") =>
          Cardinality(RowsOf(durable, "offline_metadata")) = 3
C6_Witness ==
  /\ status = "exit0"
  /\ Cardinality(RowsOf(durable, "offline_metadata")) = 3
  /\ \A t \in UserTables : t \in DOMAIN durable /\ durable[t] = {}

\* C7, as stated: while the loader runs, every row it has executed is stored or
\* has the unique key of a stored row.
C7_SkipsOnlyDuplicates ==
  (status = "running" /\ loading /\ sql \in ContentTables) =>
     \A n \in 1..(i + j) : rows[n] \in conn[sql] \/ KeyStored(conn, sql, rows[n])

\* C8: while content list k holds an object that lacks a required field, its
\* table, every later content table and the metadata table have no row and the
\* run never passes load k; when the run is at load k the earlier loads are
\* fully committed.
C8_MalformedAborts ==
  \A k \in 1..5 :
     (pc # "remove" /\ ~WellFormed(k)) =>
        /\ StagePos(pc) <= k
        /\ status # "exit0"
        /\ \A m \in k..5 : Empty(StageTable(m))
        /\ Empty("offline_metadata")
        /\ StagePos(pc) = k => \A m \in 1..(k - 1) : Committed(m)
\* a malformed reference: the run failed there with all topics committed
C8_Witness ==
  /\ status = "exit1" /\ pc = "load_references"
  /\ ~WellFormed(4)
  /\ durable["offline_topics"] # {}
  /\ Committed(3)
  /\ durable["offline_topic_references"] = {}

\* C9: in every durable state of the run, metadata rows are present only when
\* every content load is committed; they are the three rows of one commit and
\* carry the run's one downloaded_at.
C9_MetadataLast ==
  LET M == RowsOf(durable, "offline_metadata")
  IN pc # "remove" =>
       /\ Cardinality(M) \in {0, 3}
       /\ M # {} =>
            /\ \A k \in 1..5 : Committed(k)
            /\ {r[1] : r \in M} = {"bible:NASB1995", "commentary:en-US", "topics:en"}
            /\ \A r \in M : r[3] = now_iso
\* a crash after the metadata commit and before the compaction
C9_Witness ==
  /\ status = "exit1" /\ pc = "vacuum"
  /\ Cardinality(RowsOf(durable, "offline_metadata")) = 3
  /\ durable["offline_verses"] # {}

\* C10: from the first fetch until the store is opened no output file exists,
\* also when the run has failed there; the store that is then opened has no
\* table, and after the schema is created every table is empty.
C10_FreshBuild ==
  /\ pc \in {"fetch_manifest", "lookup", "fetch_verses", "fetch_commentaries",
             "fetch_topics", "open"} =>
        ~exists /\ durable = NoTables /\ conn = NoTables
  /\ pc = "schema" => exists /\ conn = NoTables /\ durable = NoTables
  /\ (pc = "load_verses" /\ ~loading) =>
        conn = create_schema(NoTables) /\ durable = create_schema(NoTables)
\* a fetched bundle lacks a list: the run failed before the store was opened
C10_Witness ==
  /\ status = "exit1" /\ pc = "fetch_topics"
  /\ topics_data.keys # BundleKeys
  /\ ~exists

====
